---- MODULE Spec2Model ----
(***************************************************************************)
(* A model of mygeotab/api.py: the API client (credentials, the            *)
(* reauthorization counter, call, multi_call, get, authenticate and the    *)
(* TLS verification flag), the transport (_query), the response processor  *)
(* (_process), the parameter normaliser (process_parameters) and the       *)
(* endpoint resolver (get_api_url).                                        *)
(*                                                                         *)
(* Spec is one caller that calls and authenticates again and again;        *)
(* SpecMulti one batch on a new client; SpecGet one get on a new client;   *)
(* SpecConc two threads with one call each on one client; SpecTls one call *)
(* or authenticate on a client of a loopback or a remote server; SpecPure  *)
(* one invocation of a module-level function.                              *)
(*                                                                         *)
(* Every blocking HTTP request is a separate step: an operation sends a    *)
(* request (the action that ends with pc = "lazy_auth", "query", "reauth"  *)
(* or "auth") and the next action of that thread handles the answer of     *)
(* the server, which is chosen nondeterministically.                       *)
(***************************************************************************)
EXTENDS Integers, Sequences, FiniteSets, TLC

(***************************************************************************)
(* Python values.                                                          *)
(* Fields of Credentials are strings; None is a value of its own.          *)
(* Other values are records tagged with their Python type.                 *)
(***************************************************************************)
None == "<None>"

\* bool(v) of a str-or-None field
Truthy(v) == v \notin {None, ""}

PyNone == [ty |-> "NoneType"]

PyStr(s) == [ty |-> "str", s |-> s]

PyList(n) == [ty |-> "list", len |-> n]

\* a dict, as the sequence of its items in insertion order
PyDict(items) == [ty |-> "dict", items |-> items]

\* a Credentials object as a returned value
PyCredentials(c) == [ty |-> "Credentials", c |-> c]

\* a decoded JSON object of the response envelope: the keys it has, and the
\* values of "error" and "result" when it has them
JsonDoc(keys, error, result) ==
    [ty |-> "doc", keys |-> keys, error |-> error, result |-> result]

\* bool(v) of a tagged value
PyTruthy(v) ==
    CASE v.ty = "NoneType" -> FALSE
      [] v.ty = "str" -> v.s # ""
      [] v.ty = "list" -> v.len > 0
      [] v.ty = "dict" -> Len(v.items) > 0
      [] v.ty = "doc" -> v.keys # {}
      [] OTHER -> TRUE

(***************************************************************************)
(* Outcomes of a function: a returned value or a raised exception.         *)
(***************************************************************************)
Return(v) == [kind |-> "return", value |-> v]

Raise(e) == [kind |-> "raise", exc |-> e]

MyGeotabException(error) == [type |-> "MyGeotabException", name |-> error.name]

TimeoutException(server) == [type |-> "TimeoutException", server |-> server]

AuthenticationException(username, database, server) ==
    [type |-> "AuthenticationException", username |-> username,
     database |-> database, server |-> server]

\* requests.HTTPError of response.raise_for_status(), or a connection error
HTTPError == [type |-> "HTTPError"]

\* result["path"] on a str or a list
TypeError == [type |-> "TypeError"]

\* result["path"] on a mapping without that key
KeyError == [type |-> "KeyError"]

\* Exception("A method name must be specified")
MethodNameException == [type |-> "Exception"]

(***************************************************************************)
(* Credentials                                                             *)
(***************************************************************************)
Credentials(username, session_id, database, server, password) ==
    [username |-> username, session_id |-> session_id, database |-> database,
     server |-> server, password |-> password]

\* a str-or-None field as a tagged value
Val(s) == IF s = None THEN PyNone ELSE PyStr(s)

K_userName == <<"u", "s", "e", "r", "N", "a", "m", "e">>

K_sessionId == <<"s", "e", "s", "s", "i", "o", "n", "I", "d">>

K_database == <<"d", "a", "t", "a", "b", "a", "s", "e">>

K_credentials == <<"c", "r", "e", "d", "e", "n", "t", "i", "a", "l", "s">>

K_type_name == <<"t", "y", "p", "e", "_", "n", "a", "m", "e">>

K_typeName == <<"t", "y", "p", "e", "N", "a", "m", "e">>

Item(k, v) == [k |-> k, v |-> v]

get_param(c) ==
    PyDict(<<Item(K_userName, Val(c.username)),
             Item(K_sessionId, Val(c.session_id)),
             Item(K_database, Val(c.database))>>)

\* API._server: the credentials after the property has been read
WithServer(c) ==
    IF ~Truthy(c.server) THEN [c EXCEPT !.server = "my.geotab.com"] ELSE c

(***************************************************************************)
(* _process and _query                                                     *)
(***************************************************************************)
\* faulty variant of lines 466-469: "result" is looked for before "error"
_process_ResultFirst(data) ==
    IF PyTruthy(data)
    THEN IF "result" \in data.keys
         THEN Return(data.result)
         ELSE IF "error" \in data.keys
              THEN Raise(MyGeotabException(data.error))
              ELSE Return(data)
    ELSE Return(data)

\* lines 458-470
_process(data) ==
    IF PyTruthy(data)
    THEN IF "error" \in data.keys
         THEN Raise(MyGeotabException(data.error))
         ELSE IF "result" \in data.keys
              THEN Return(data.result)
              ELSE Return(data)
    ELSE Return(data)

\* The answer to one POST: a timeout, a failing HTTP status or connection, a
\* body that is not JSON, or a JSON document.
_query(server, response) ==
    CASE response.kind = "timeout" -> Raise(TimeoutException(server))
      [] response.kind = "http_error" -> Raise(HTTPError)
      [] response.kind = "text" -> Return(PyStr(response.body))
      [] response.kind = "json" -> _process(response.doc)

(***************************************************************************)
(* dict operations (items in insertion order)                              *)
(***************************************************************************)
HasKey(d, k) == \E i \in 1..Len(d.items) : d.items[i].k = k

\* d[k] = v: an existing key keeps its place
DictSet(d, k, v) ==
    IF HasKey(d, k)
    THEN PyDict([i \in 1..Len(d.items) |->
                    IF d.items[i].k = k THEN Item(k, v) ELSE d.items[i]])
    ELSE PyDict(Append(d.items, Item(k, v)))

\* del d[k]
DictDel(d, k) == PyDict(SelectSeq(d.items, LAMBDA it : it.k # k))

(***************************************************************************)
(* process_parameters                                                      *)
(***************************************************************************)
Lower == <<"a", "b", "c", "d", "e", "i", "m", "n", "o", "p", "r", "s", "t", "u", "y">>

Upper == <<"A", "B", "C", "D", "E", "I", "M", "N", "O", "P", "R", "S", "T", "U", "Y">>

Digits == {"0", "1"}

\* the class \w of the regular expression
IsWordChar(ch) ==
    \/ \E i \in 1..Len(Lower) : ch = Lower[i] \/ ch = Upper[i]
    \/ ch \in Digits
    \/ ch = "_"

\* str.upper() of one character
ToUpper(ch) ==
    IF \E i \in 1..Len(Lower) : ch = Lower[i]
    THEN Upper[CHOOSE i \in 1..Len(Lower) : ch = Lower[i]]
    ELSE ch

\* re.sub(r"_(\w)", lambda m: m.group(1).upper(), name): the matches are
\* taken from left to right and do not overlap
RECURSIVE CamelFrom(_, _)
CamelFrom(name, i) ==
    IF i > Len(name) THEN <<>>
    ELSE IF name[i] = "_" /\ i < Len(name) /\ IsWordChar(name[i + 1])
         THEN <<ToUpper(name[i + 1])>> \o CamelFrom(name, i + 2)
         ELSE <<name[i]>> \o CamelFrom(name, i + 1)


\* faulty variant of line 510: the underscores go, nothing is uppercased
ServerParamName_NoUpper(param_name) == SelectSeq(param_name, LAMBDA ch : ch # "_")

\* line 510
ServerParamName(param_name) == CamelFrom(param_name, 1)

RECURSIVE process_parameters(_)
RECURSIVE ProcessLoop(_, _, _)
\* the loop over the keys of `parameters`, from the i-th on, on the copy
ProcessLoop(parameters, params, i) ==
    IF i > Len(parameters.items) THEN params
    ELSE LET param_name == parameters.items[i].k
             server_param_name == ServerParamName(param_name)
             v0 == parameters.items[i].v
             value == IF v0.ty = "dict" THEN process_parameters(v0) ELSE v0
             p1 == DictSet(params, server_param_name, value)
             p2 == IF server_param_name # param_name
                   THEN DictDel(p1, param_name) ELSE p1
         IN  ProcessLoop(parameters, p2, i + 1)

process_parameters(parameters) ==
    IF ~PyTruthy(parameters) THEN PyDict(<<>>)
    ELSE ProcessLoop(parameters, parameters, 1)

(***************************************************************************)
(* The answers of the server                                               *)
(***************************************************************************)
ErrorNames == {"InvalidUserException", "DbUnavailableException"}

\* the result of a successful Authenticate
Login(path, userName, sessionId, database) ==
    [ty |-> "login", path |-> path,
     credentials |-> [userName |-> userName, sessionId |-> sessionId,
                      database |-> database]]

Paths == {"ThisServer", "my3.geotab.com"}

IssuedSessionIds == {"s1", ""}

Logins == {Login(p, "user@geotab", s, "db1") : p \in Paths, s \in IssuedSessionIds}

ResultValues == {PyNone, PyList(0), PyList(2)} \cup Logins

JsonDocs ==
    {PyNone, JsonDoc({}, PyNone, PyNone), JsonDoc({"id"}, PyNone, PyNone)}
    \cup {JsonDoc({"result"}, PyNone, r) : r \in ResultValues}
    \cup {JsonDoc({"error"}, [name |-> n], PyNone) : n \in ErrorNames}
    \cup {JsonDoc({"error", "result"}, [name |-> n], PyList(2)) : n \in ErrorNames}

Responses ==
    {[kind |-> "timeout"], [kind |-> "http_error"], [kind |-> "text", body |-> "pong"]}
    \cup {[kind |-> "json", doc |-> d] : d \in JsonDocs}

Pending == [kind |-> "pending"]

(***************************************************************************)
(* API.authenticate                                                        *)
(***************************************************************************)
auth_data(c, is_global) ==
    [ty |-> "auth_data", database |-> c.database, userName |-> c.username,
     password |-> c.password, global |-> is_global]


\* faulty variant of line 105: the name of the remote error is not read
IsInvalidUser_AnyName(o) == o.kind = "raise" /\ o.exc.type = "MyGeotabException"

IsInvalidUser(o) ==
    /\ o.kind = "raise"
    /\ o.exc.type = "MyGeotabException"
    /\ o.exc.name = "InvalidUserException"


\* faulty variant of lines 205-208: the sentinel is not recognised
NewCredentials_AlwaysPath(c, result) ==
    Credentials(result.credentials.userName, result.credentials.sessionId,
                result.credentials.database, result.path, None)

\* faulty variant of line 212: the new credentials keep the password
NewCredentials_KeepPassword(c, result) ==
    LET new_server == result.path
        server == IF new_server # "ThisServer" THEN new_server ELSE c.server
    IN  Credentials(result.credentials.userName, result.credentials.sessionId,
                    result.credentials.database, server, c.password)

\* lines 205-212: the credentials built from a result
NewCredentials(c, result) ==
    LET new_server == result.path
        server == IF new_server # "ThisServer" THEN new_server ELSE c.server
    IN  Credentials(result.credentials.userName, result.credentials.sessionId,
                    result.credentials.database, server, None)


\* faulty variants of lines 214-219: the remote error is raised as it is; every
\* remote error becomes an AuthenticationException
AuthenticateError_Unconverted(c, q) == q

AuthenticateError_AnyRemote(c, q) ==
    IF q.exc.type = "MyGeotabException"
    THEN Raise(AuthenticationException(c.username, c.database, c.server))
    ELSE q

\* lines 214-219: the exception raised for a failed request
AuthenticateError(c, q) ==
    IF IsInvalidUser(q)
    THEN Raise(AuthenticationException(c.username, c.database, c.server))
    ELSE q

\* faulty variant of lines 214-219: a failed request clears the session id
authenticate_ClearsSession(c, server, response) ==
    LET q == _query(server, response)
    IN  IF q.kind = "raise"
        THEN [credentials |-> [c EXCEPT !.session_id = None],
              outcome |-> AuthenticateError(c, q)]
        ELSE IF PyTruthy(q.value) /\ q.value.ty = "login"
             THEN [credentials |-> NewCredentials(c, q.value),
                   outcome |-> Return(PyCredentials(NewCredentials(c, q.value)))]
             ELSE [credentials |-> c, outcome |-> Return(PyNone)]

\* authenticate from the answer to its request on: the client's credentials
\* afterwards and what authenticate returns or raises
authenticate(c, server, response) ==
    LET q == _query(server, response)
    IN  IF q.kind = "raise"
        THEN [credentials |-> c, outcome |-> AuthenticateError(c, q)]
        ELSE IF PyTruthy(q.value)
             THEN IF q.value.ty = "login"
                  THEN LET new == NewCredentials(c, q.value)
                       IN  [credentials |-> new, outcome |-> Return(PyCredentials(new))]
                  ELSE [credentials |-> c,
                        outcome |-> Raise(IF q.value.ty = "doc" THEN KeyError ELSE TypeError)]
             ELSE [credentials |-> c, outcome |-> Return(PyNone)]

(***************************************************************************)
(* get_api_url; strings are sequences of characters                        *)
(***************************************************************************)
S_http == <<"h", "t", "t", "p">>

S_https == <<"h", "t", "t", "p", "s">>

\* the characters urlsplit takes for letters and digits (the server identifiers
\* of the model are in lower case)
UrlLetters ==
    {"a", "b", "c", "d", "e", "f", "g", "h", "i", "j", "k", "l", "m", "n", "o", "p", "q",
     "r", "s", "t", "u", "v", "w", "x", "y", "z"}

UrlDigits == {"0", "1", "2", "3", "4", "5", "6", "7", "8", "9"}

\* urllib.parse.scheme_chars
IsSchemeChar(ch) == ch \in UrlLetters \cup UrlDigits \cup {"+", "-", "."}

\* str.find: the first place from `from` on of a character of chars, or 0
Find(s, chars, from) ==
    IF \E i \in from..Len(s) : s[i] \in chars
    THEN CHOOSE i \in from..Len(s) :
             s[i] \in chars /\ \A j \in from..(i - 1) : s[j] \notin chars
    ELSE 0

\* s[i:] with i counted from 1
From(s, i) == IF i > Len(s) THEN <<>> ELSE SubSeq(s, i, Len(s))

\* urlsplit's test of url[:i] as a scheme. `legacy` is the rule of the
\* interpreters up to 3.8 (2.7 included), which keep "host:80" whole as a path
\* when all that follows the colon is digits; the later ones ask for a first
\* character that is a letter instead.
HasScheme(url, i, legacy) ==
    /\ i > 1
    /\ \A j \in 1..(i - 1) : IsSchemeChar(url[j])
    /\ IF legacy
       THEN \/ i = Len(url)
            \/ \E j \in (i + 1)..Len(url) : url[j] \notin UrlDigits
       ELSE url[1] \in UrlLetters

\* urlparse(server): netloc and path (the scheme is not read by get_api_url;
\* the identifiers have no "?", "#" or ";" part)
urlparse(server, legacy) ==
    LET i == Find(server, {":"}, 1)
        url == IF HasScheme(server, i, legacy) THEN From(server, i + 1) ELSE server
    IN  IF Len(url) >= 2 /\ SubSeq(url, 1, 2) = <<"/", "/">>
        THEN LET delim == Find(url, {"/", "?", "#"}, 3)
             IN  IF delim = 0
                 THEN [netloc |-> From(url, 3), path |-> <<>>]
                 ELSE [netloc |-> SubSeq(url, 3, delim - 1), path |-> From(url, delim)]
        ELSE [netloc |-> <<>>, path |-> url]

\* lines 519-528; line 527 computes base_url.replace("/", "") and drops it
get_api_url(server, legacy) ==
    LET parsed == urlparse(server, legacy)
        base_url == IF parsed.netloc # <<>> THEN parsed.netloc ELSE parsed.path
    IN  S_https \o <<":", "/", "/">> \o base_url \o <<"/", "a", "p", "i", "v", "1">>

(***************************************************************************)
(* API._is_verify_ssl                                                      *)
(***************************************************************************)
\* the characters of the server names of the model: the client holds its
\* server as one string and get_api_url reads it character by character
Chars(server) ==
    CASE server = "my.geotab.com" ->
           <<"m", "y", ".", "g", "e", "o", "t", "a", "b", ".", "c", "o", "m">>
      [] server = "my3.geotab.com" ->
           <<"m", "y", "3", ".", "g", "e", "o", "t", "a", "b", ".", "c", "o", "m">>
      [] server = "ThisServer" ->
           <<"T", "h", "i", "s", "S", "e", "r", "v", "e", "r">>
      [] server = "localhost" ->
           <<"l", "o", "c", "a", "l", "h", "o", "s", "t">>
      [] server = "127.0.0.1" ->
           <<"1", "2", "7", ".", "0", ".", "0", ".", "1">>
      [] server = "mylocalhost.io" ->
           <<"m", "y", "l", "o", "c", "a", "l", "h", "o", "s", "t", ".", "i", "o">>
      [] server = "127.0.0.1.io" ->
           <<"1", "2", "7", ".", "0", ".", "0", ".", "1", ".", "i", "o">>

S_127_0_0_1 == <<"1", "2", "7", ".", "0", ".", "0", ".", "1">>

S_localhost == <<"l", "o", "c", "a", "l", "h", "o", "s", "t">>

\* sub in s
Contains(s, sub) ==
    \E i \in 1..(Len(s) - Len(sub) + 1) : SubSeq(s, i, i + Len(sub) - 1) = sub

\* not any(s in get_api_url(self._server) for s in ["127.0.0.1", "localhost"])
_is_verify_ssl(server, legacy) ==
    ~ \E s \in {S_127_0_0_1, S_localhost} : Contains(get_api_url(Chars(server), legacy), s)

\* the server names a client of the model can hold: those it is constructed
\* with, the default, and the paths of the logins
ServerNames ==
    {"my.geotab.com", "localhost", "127.0.0.1", "mylocalhost.io", "127.0.0.1.io"}
        \cup Paths

\* self._is_verify_ssl of a client that holds the server, under each of the two
\* rules of urlsplit (legacy: Python up to 3.8)
verify_ssl ==
    [server \in ServerNames |-> [legacy \in BOOLEAN |-> _is_verify_ssl(server, legacy)]]

(***************************************************************************)
(* The client and its callers                                              *)
(***************************************************************************)
Threads == {"t1", "t2"}

\* the thread of the single-threaded, blocking use of the client
Main == "t1"

VARIABLES
    credentials,        \* self.credentials
    reauthorize_count,  \* self.__reauthorize_count
    pc,                 \* where each thread is in call or authenticate
    frame,              \* the arguments of the call a thread is in
    log,                \* the requests a thread's top-level operation has sent
    outcome,            \* what a thread's top-level operation returned or raised
    start               \* the client at the start of a thread's operation

vars == <<credentials, reauthorize_count, pc, frame, log, outcome, start>>

Usernames == {"user"}

Passwords == {None, "", "pw"}

SessionIds == {None, "s0"}

Databases == {None, "db"}

Servers == {None, "my.geotab.com"}

Methods == {None, "Get"}

CallerCredentials ==
    PyDict(<<Item(K_userName, PyStr("other")), Item(K_sessionId, PyStr("s9")),
             Item(K_database, PyStr("db"))>>)

Parameters ==
    {PyDict(<<>>),
     PyDict(<<Item(K_type_name, PyStr("Device"))>>),
     PyDict(<<Item(K_credentials, CallerCredentials)>>)}

NoFrame == [op |-> "none"]

NoOutcome == [kind |-> "none"]

NoStart == [credentials |-> None, reauthorize_count |-> 0]

\* API.__init__
Init ==
    /\ \E u \in Usernames, p \in Passwords, s \in SessionIds,
          d \in Databases, sv \in Servers :
          /\ ~(p = None /\ s = None)
          /\ credentials = Credentials(u, s, d, sv, p)
    /\ reauthorize_count = 0
    /\ pc = [t \in Threads |-> "idle"]
    /\ frame = [t \in Threads |-> NoFrame]
    /\ log = [t \in Threads |-> <<>>]
    /\ outcome = [t \in Threads |-> NoOutcome]
    /\ start = [t \in Threads |-> NoStart]

\* A request on the wire: what _query is called with, the place of the code
\* that sends it (at), the credentials the client holds when it is sent
\* (held), once it is there, the answer, and the verify_ssl it is sent with.
Sent(method, params, at, held) ==
    [method |-> method, server |-> held.server, params |-> params, at |-> at,
     held |-> held, response |-> Pending,
     verify_ssl |-> verify_ssl[held.server]]

Last(lg) == lg[Len(lg)]

\* the log with the answer to its last request filled in
Answered(lg, response) == [lg EXCEPT ![Len(lg)].response = response]

\* the operation of thread t ends with outcome o
Finish(t, o) ==
    /\ pc' = [pc EXCEPT ![t] = "done"]
    /\ outcome' = [outcome EXCEPT ![t] = o]

\* lines 198-203: authenticate up to its request
SendAuthenticate(t, c, is_global, lg, at) ==
    /\ credentials' = WithServer(c)
    /\ log' = [log EXCEPT ![t] =
                  Append(lg, Sent("Authenticate", auth_data(c, is_global), at,
                                  WithServer(c)))]
    /\ pc' = [pc EXCEPT ![t] = at]

\* lines 96-97: the parameters sent
WithCredentials(params, c) ==
    IF ~HasKey(params, K_credentials) /\ Truthy(c.session_id)
    THEN DictSet(params, K_credentials, get_param(c))
    ELSE params

\* lines 93 and 96-100: call from the injection of the credentials to its request
SendMethod(t, c, fr, lg) ==
    /\ credentials' = WithServer(c)
    /\ log' = [log EXCEPT ![t] =
                  Append(lg, Sent(fr.method,
                                  WithCredentials(process_parameters(fr.parameters), c),
                                  "query", WithServer(c)))]
    /\ pc' = [pc EXCEPT ![t] = "query"]


\* faulty variant of line 94: `is None` in the place of `not`
NeedsSession_OnlyNone(c) == c.session_id = None

\* line 94: whether call authenticates first
NeedsSession(c) == ~Truthy(c.session_id)

\* lines 91-100: call up to its first request
CallEnter(t, c, fr, lg) ==
    IF fr.method = None
    THEN /\ Finish(t, Raise(MethodNameException))
         /\ credentials' = c
         /\ log' = [log EXCEPT ![t] = lg]
    ELSE /\ outcome' = [outcome EXCEPT ![t] = NoOutcome]
         /\ IF NeedsSession(c)
            THEN SendAuthenticate(t, c, TRUE, lg, "lazy_auth")
            ELSE SendMethod(t, c, fr, lg)

\* a caller invokes api.call(method, **parameters)
CallBegin(t, method, parameters) ==
    /\ pc[t] \in {"idle", "done"}
    /\ frame' = [frame EXCEPT ![t] =
                    [op |-> "call", method |-> method, parameters |-> parameters,
                     depth |-> 0]]
    /\ start' = [start EXCEPT ![t] =
                    [credentials |-> credentials,
                     reauthorize_count |-> reauthorize_count]]
    /\ CallEnter(t, credentials, frame'[t], <<>>)
    /\ UNCHANGED reauthorize_count

\* line 95: the answer to the Authenticate request of a call without session
LazyAuthReturn(t, response) ==
    /\ pc[t] = "lazy_auth"
    /\ LET lg == Answered(log[t], response)
           a == authenticate(credentials, Last(log[t]).server, response)
       IN  IF a.outcome.kind = "raise"
           THEN /\ Finish(t, a.outcome)
                /\ credentials' = a.credentials
                /\ log' = [log EXCEPT ![t] = lg]
           ELSE /\ SendMethod(t, a.credentials, frame[t], lg)
                /\ UNCHANGED outcome
    /\ UNCHANGED <<reauthorize_count, frame, start>>


\* faulty variants of line 106: the counter is not read; the password is not read
ShouldReauthorize_NoCount(count, c) == Truthy(c.password)

ShouldReauthorize_NoPassword(count, c) == count = 0

\* line 106: whether an InvalidUserException is answered by a re-authentication
ShouldReauthorize(count, c) == count = 0 /\ Truthy(c.password)

\* lines 101-102: the counter after a result
CountAfterResult(count, result) == IF result # PyNone THEN 0 ELSE count

\* line 103, and line 148 for get: what the caller gets for the result of the
\* request
Returned(fr, q) ==
    IF fr.op = "get"
    THEN Return([ty |-> "EntityList", data |-> q.value, type_name |-> fr.type_name])
    ELSE q

\* lines 100-114: the answer to the request of the called method
QueryReturn(t, response) ==
    /\ pc[t] = "query"
    /\ LET lg == Answered(log[t], response)
           q == _query(Last(log[t]).server, response)
       IN  IF q.kind = "return"
           THEN /\ reauthorize_count' = CountAfterResult(reauthorize_count, q.value)
                /\ Finish(t, Returned(frame[t], q))
                /\ log' = [log EXCEPT ![t] = lg]
                /\ UNCHANGED credentials
           ELSE IF IsInvalidUser(q)
                THEN IF ShouldReauthorize(reauthorize_count, credentials)
                     THEN /\ reauthorize_count' = reauthorize_count + 1
                          /\ SendAuthenticate(t, credentials, TRUE, lg, "reauth")
                          /\ UNCHANGED outcome
                     ELSE /\ Finish(t, Raise(AuthenticationException(
                                      credentials.username, credentials.database,
                                      credentials.server)))
                          /\ log' = [log EXCEPT ![t] = lg]
                          /\ UNCHANGED <<credentials, reauthorize_count>>
                ELSE /\ Finish(t, q)
                     /\ log' = [log EXCEPT ![t] = lg]
                     /\ UNCHANGED <<credentials, reauthorize_count>>
    /\ UNCHANGED <<frame, start>>

\* lines 108-109: the answer to the Authenticate request of the handler of
\* InvalidUserException, and the call of call that follows it
ReauthReturn(t, response) ==
    /\ pc[t] = "reauth"
    /\ LET lg == Answered(log[t], response)
           a == authenticate(credentials, Last(log[t]).server, response)
       IN  IF a.outcome.kind = "raise"
           THEN /\ Finish(t, a.outcome)
                /\ credentials' = a.credentials
                /\ log' = [log EXCEPT ![t] = lg]
                /\ UNCHANGED frame
           ELSE /\ frame' = [frame EXCEPT ![t].depth = @ + 1]
                /\ CallEnter(t, a.credentials, frame'[t], lg)
    /\ UNCHANGED <<reauthorize_count, start>>

\* a caller invokes api.authenticate(is_global)
AuthenticateBegin(t, is_global) ==
    /\ pc[t] \in {"idle", "done"}
    /\ frame' = [frame EXCEPT ![t] = [op |-> "authenticate", is_global |-> is_global]]
    /\ start' = [start EXCEPT ![t] =
                    [credentials |-> credentials,
                     reauthorize_count |-> reauthorize_count]]
    /\ outcome' = [outcome EXCEPT ![t] = NoOutcome]
    /\ SendAuthenticate(t, credentials, is_global, <<>>, "auth")
    /\ UNCHANGED reauthorize_count

\* lines 202-219: the answer to the request of a top-level authenticate
AuthenticateReturn(t, response) ==
    /\ pc[t] = "auth"
    /\ LET a == authenticate(credentials, Last(log[t]).server, response)
       IN  /\ Finish(t, a.outcome)
           /\ credentials' = a.credentials
           /\ log' = [log EXCEPT ![t] = Answered(log[t], response)]
    /\ UNCHANGED <<reauthorize_count, frame, start>>

Step(t) ==
    \/ \E m \in Methods, p \in Parameters : CallBegin(t, m, p)
    \/ \E r \in Responses : LazyAuthReturn(t, r)
    \/ \E r \in Responses : QueryReturn(t, r)
    \/ \E r \in Responses : ReauthReturn(t, r)
    \/ \E g \in BOOLEAN : AuthenticateBegin(t, g)
    \/ \E r \in Responses : AuthenticateReturn(t, r)

\* one caller at a time: every operation blocks its caller until it ends
Next == Step(Main)

Spec == Init /\ [][Next]_vars

(***************************************************************************)
(* API.multi_call                                                          *)
(***************************************************************************)
K_calls == <<"c", "a", "l", "l", "s">>

K_method == <<"m", "e", "t", "h", "o", "d">>

K_params == <<"p", "a", "r", "a", "m", "s">>

\* a list with its elements
PyListOf(elems) == [ty |-> "list", len |-> Len(elems), elems |-> elems]

\* the longest list of calls a caller passes
MaxCalls == 2

\* a call of the batch: (method,) or (method, params)
CallTuples ==
    {<<"GetVersion">>, <<"Get", PyDict(<<Item(K_type_name, PyStr("Device"))>>)>>}

RECURSIVE ListsOf(_, _)
\* the sequences over S of length n or less
ListsOf(S, n) ==
    IF n = 0 THEN {<<>>}
    ELSE LET shorter == ListsOf(S, n - 1)
         IN  shorter \cup {Append(l, x) : l \in shorter, x \in S}

CallLists == ListsOf(CallTuples, MaxCalls)


\* faulty variants of line 127: the parameters of a sub-call are normalised;
\* a sub-call without parameters gets no `params`
formatted_calls_Normalised(calls) ==
    [i \in 1..Len(calls) |->
        PyDict(<<Item(K_method, PyStr(calls[i][1])),
                 Item(K_params, IF Len(calls[i]) > 1
                                THEN process_parameters(calls[i][2])
                                ELSE PyDict(<<>>))>>)]

formatted_calls_NoDefault(calls) ==
    [i \in 1..Len(calls) |->
        IF Len(calls[i]) > 1
        THEN PyDict(<<Item(K_method, PyStr(calls[i][1])), Item(K_params, calls[i][2])>>)
        ELSE PyDict(<<Item(K_method, PyStr(calls[i][1]))>>)]

\* line 127
formatted_calls(calls) ==
    [i \in 1..Len(calls) |->
        PyDict(<<Item(K_method, PyStr(calls[i][1])),
                 Item(K_params, IF Len(calls[i]) > 1 THEN calls[i][2]
                                ELSE PyDict(<<>>))>>)]

\* a caller invokes api.multi_call(calls): line 128 calls
\* self.call("ExecuteMultiCall", calls=formatted_calls)
MultiCallBegin(t, calls) ==
    /\ pc[t] \in {"idle", "done"}
    /\ frame' = [frame EXCEPT ![t] =
                    [op |-> "multi_call", calls |-> calls,
                     method |-> "ExecuteMultiCall",
                     parameters |->
                         PyDict(<<Item(K_calls, PyListOf(formatted_calls(calls)))>>),
                     depth |-> 0]]
    /\ start' = [start EXCEPT ![t] =
                    [credentials |-> credentials,
                     reauthorize_count |-> reauthorize_count]]
    /\ CallEnter(t, credentials, frame'[t], <<>>)
    /\ UNCHANGED reauthorize_count

\* one batch on a client as it was constructed
NextMulti ==
    \/ \E calls \in CallLists : pc[Main] = "idle" /\ MultiCallBegin(Main, calls)
    \/ \E r \in Responses : LazyAuthReturn(Main, r)
    \/ \E r \in Responses : QueryReturn(Main, r)
    \/ \E r \in Responses : ReauthReturn(Main, r)

SpecMulti == Init /\ [][NextMulti]_vars

(***************************************************************************)
(* The functions of the module, called on their own                        *)
(***************************************************************************)
\* a function that sends no request has run: fr is the function with its
\* arguments, o what it returns or raises
PureCall(t, fr, o) ==
    /\ frame' = [frame EXCEPT ![t] = fr]
    /\ Finish(t, o)
    /\ log' = [log EXCEPT ![t] = <<>>]
    /\ start' = [start EXCEPT ![t] =
                    [credentials |-> credentials,
                     reauthorize_count |-> reauthorize_count]]
    /\ UNCHANGED <<credentials, reauthorize_count>>

\* a caller invokes _process(data); the functions keep no state, so one
\* invocation per behaviour shows all they do
ProcessCall(t, data) ==
    /\ pc[t] = "idle"
    /\ PureCall(t, [op |-> "_process", data |-> data], _process(data))

\* keys of the caller: snake_case, its camelCase twin, a doubled underscore, a
\* trailing underscore, no underscore
ParamKeys ==
    {K_type_name, K_typeName, <<"a", "_", "_", "b">>, <<"a", "_">>, <<"i", "d">>}

\* the most entries of a mapping of the caller
MaxItems == 2

\* values that are not mappings: a str, a list that holds a mapping
LeafValues ==
    {PyStr("v"), PyListOf(<<PyDict(<<Item(K_type_name, PyStr("v"))>>)>>)}

\* nested mappings
InnerDicts ==
    {PyDict(<<>>)} \cup {PyDict(<<Item(k, PyStr("v"))>>) : k \in ParamKeys}

ParamValues == LeafValues \cup InnerDicts

\* the keys of a dict are distinct
Distinct(ks) == \A i, j \in DOMAIN ks : ks[i] = ks[j] => i = j

\* the dict of the keys ks with the values vs, in that order
DictOf(ks, vs) == PyDict([i \in DOMAIN ks |-> Item(ks[i], vs[i])])

\* a caller invokes process_parameters(parameters)
ProcessParametersCall(t, parameters) ==
    /\ pc[t] = "idle"
    /\ PureCall(t, [op |-> "process_parameters", parameters |-> parameters],
                Return(process_parameters(parameters)))

\* a caller invokes process_parameters on a mapping of MaxItems entries or less
ProcessParametersAny(t) ==
    /\ pc[t] = "idle"
    /\ \E n \in 0..MaxItems :
           \E ks \in [1..n -> ParamKeys], vs \in [1..n -> ParamValues] :
               Distinct(ks) /\ ProcessParametersCall(t, DictOf(ks, vs))

\* server identifiers: [scheme://]host[:port][path]
ServerParts ==
    [scheme : {<<>>, S_http, S_https},
     host : {<<"g", ".", "i", "o">>, <<"l", "o", "c", "a", "l", "h", "o", "s", "t">>},
     port : {<<>>, <<":", "8", "0">>},
     path : {<<>>, <<"/">>, <<"/", "p">>, <<"/", "a", "p", "i", "v", "1">>}]

ServerOf(parts) ==
    (IF parts.scheme = <<>> THEN <<>> ELSE parts.scheme \o <<":", "/", "/">>)
    \o parts.host \o parts.port \o parts.path

\* a caller invokes get_api_url(server)
GetApiUrlCall(t, parts, legacy) ==
    /\ pc[t] = "idle"
    /\ PureCall(t, [op |-> "get_api_url", server |-> ServerOf(parts),
                    parts |-> parts, legacy |-> legacy],
                Return(PyStr(get_api_url(ServerOf(parts), legacy))))

\* a client stands by; the functions do not read it
InitPure ==
    /\ credentials = Credentials("user", "s0", "db", "my.geotab.com", None)
    /\ reauthorize_count = 0
    /\ pc = [t \in Threads |-> "idle"]
    /\ frame = [t \in Threads |-> NoFrame]
    /\ log = [t \in Threads |-> <<>>]
    /\ outcome = [t \in Threads |-> NoOutcome]
    /\ start = [t \in Threads |-> NoStart]

NextPure ==
    \/ \E d \in JsonDocs : ProcessCall(Main, d)
    \/ ProcessParametersAny(Main)
    \/ \E parts \in ServerParts, legacy \in BOOLEAN : GetApiUrlCall(Main, parts, legacy)

SpecPure == InitPure /\ [][NextPure]_vars

(***************************************************************************)
(* API.get                                                                 *)
(***************************************************************************)
K_search == <<"s", "e", "a", "r", "c", "h">>

K_resultsLimit == <<"r", "e", "s", "u", "l", "t", "s", "L", "i", "m", "i", "t">>

K_id == <<"i", "d">>

K_name == <<"n", "a", "m", "e">>

PyInt(n) == [ty |-> "int", n |-> n]

\* d.get(k, default)
DictGet(d, k, default) ==
    IF HasKey(d, k)
    THEN d.items[CHOOSE i \in 1..Len(d.items) : d.items[i].k = k].v
    ELSE default

RECURSIVE UpdateFrom(_, _, _)
\* d.update(other), from the i-th item of other on
UpdateFrom(d, other, i) ==
    IF i > Len(other.items) THEN d
    ELSE UpdateFrom(DictSet(d, other.items[i].k, other.items[i].v), other, i + 1)

DictUpdate(d, other) == UpdateFrom(d, other, 1)

\* lines 141-147: the keyword arguments get passes on to call beside type_name
get_parameters(parameters) ==
    IF PyTruthy(parameters)
    THEN LET results_limit == DictGet(parameters, K_resultsLimit, PyNone)
             p1 == IF results_limit # PyNone
                   THEN DictDel(parameters, K_resultsLimit) ELSE parameters
             p2 == IF HasKey(p1, K_search)
                   THEN DictUpdate(p1, DictGet(p1, K_search, PyNone)) ELSE p1
         IN  PyDict(<<Item(K_search, p2), Item(K_resultsLimit, results_limit)>>)
    ELSE parameters

\* what a caller passes to get beside type_name: its own criteria, a nested
\* `search`, a limit
GetCriteria == {<<>>, <<Item(K_name, PyStr("x"))>>}

GetSearches == {<<>>, <<Item(K_search, PyDict(<<Item(K_id, PyStr("b1"))>>))>>}

GetLimits == {<<>>, <<Item(K_resultsLimit, PyInt(5))>>}

GetParameters ==
    {PyDict(c \o l \o s) : c \in GetCriteria, l \in GetLimits, s \in GetSearches}

\* a caller invokes api.get(type_name, **parameters): line 148 calls
\* self.call("Get", type_name=type_name, **parameters)
GetBegin(t, type_name, parameters) ==
    /\ pc[t] \in {"idle", "done"}
    /\ frame' = [frame EXCEPT ![t] =
                    [op |-> "get", type_name |-> type_name, given |-> parameters,
                     method |-> "Get",
                     parameters |->
                         PyDict(<<Item(K_type_name, PyStr(type_name))>>
                                \o get_parameters(parameters).items),
                     depth |-> 0]]
    /\ start' = [start EXCEPT ![t] =
                    [credentials |-> credentials,
                     reauthorize_count |-> reauthorize_count]]
    /\ CallEnter(t, credentials, frame'[t], <<>>)
    /\ UNCHANGED reauthorize_count

\* one get on a client as it was constructed
NextGet ==
    \/ \E p \in GetParameters : pc[Main] = "idle" /\ GetBegin(Main, "Device", p)
    \/ \E r \in Responses : LazyAuthReturn(Main, r)
    \/ \E r \in Responses : QueryReturn(Main, r)
    \/ \E r \in Responses : ReauthReturn(Main, r)

SpecGet == Init /\ [][NextGet]_vars

(***************************************************************************)
(* Two threads that call on one client                                     *)
(***************************************************************************)
\* the answers of the server to the two threads: a timeout, the remote error
\* InvalidUserException, a list, a login, an empty result
ConcResponses ==
    {[kind |-> "timeout"],
     [kind |-> "json",
      doc |-> JsonDoc({"error"}, [name |-> "InvalidUserException"], PyNone)],
     [kind |-> "json", doc |-> JsonDoc({"result"}, PyNone, PyList(2))],
     [kind |-> "json",
      doc |-> JsonDoc({"result"}, PyNone, Login("ThisServer", "user@geotab", "s1", "db1"))],
     [kind |-> "json", doc |-> JsonDoc({"result"}, PyNone, PyNone)]}

\* API(username, password=..., session_id=..., database=...)
InitConc ==
    /\ \E u \in Usernames, s \in SessionIds :
          credentials = Credentials(u, s, "db", None, "pw")
    /\ reauthorize_count = 0
    /\ pc = [t \in Threads |-> "idle"]
    /\ frame = [t \in Threads |-> NoFrame]
    /\ log = [t \in Threads |-> <<>>]
    /\ outcome = [t \in Threads |-> NoOutcome]
    /\ start = [t \in Threads |-> NoStart]

\* each thread makes one call; the steps of the two calls interleave at the
\* requests, where a thread waits for the server
ConcStep(t) ==
    \/ pc[t] = "idle" /\ \E p \in Parameters : CallBegin(t, "Get", p)
    \/ \E r \in ConcResponses : LazyAuthReturn(t, r)
    \/ \E r \in ConcResponses : QueryReturn(t, r)
    \/ \E r \in ConcResponses : ReauthReturn(t, r)

NextConc == \E t \in Threads : ConcStep(t)

SpecConc == InitConc /\ [][NextConc]_vars

(***************************************************************************)
(* Clients of loopback servers and of servers named alike                  *)
(***************************************************************************)
\* API(username, password=..., session_id=..., database=..., server=...): the
\* default server, the two loopback hosts, and two remote hosts whose names
\* hold "localhost" and "127.0.0.1"
TlsServers ==
    {None, "my.geotab.com", "localhost", "127.0.0.1", "mylocalhost.io", "127.0.0.1.io"}

InitTls ==
    /\ \E s \in SessionIds, sv \in TlsServers :
          credentials = Credentials("user", s, "db", sv, "pw")
    /\ reauthorize_count = 0
    /\ pc = [t \in Threads |-> "idle"]
    /\ frame = [t \in Threads |-> NoFrame]
    /\ log = [t \in Threads |-> <<>>]
    /\ outcome = [t \in Threads |-> NoOutcome]
    /\ start = [t \in Threads |-> NoStart]

\* one call or one authenticate on each client
NextTls ==
    \/ \E p \in Parameters : pc[Main] = "idle" /\ CallBegin(Main, "Get", p)
    \/ \E g \in BOOLEAN : pc[Main] = "idle" /\ AuthenticateBegin(Main, g)
    \/ \E r \in ConcResponses : LazyAuthReturn(Main, r)
    \/ \E r \in ConcResponses : QueryReturn(Main, r)
    \/ \E r \in ConcResponses : ReauthReturn(Main, r)
    \/ \E r \in ConcResponses : AuthenticateReturn(Main, r)

SpecTls == InitTls /\ [][NextTls]_vars

(***************************************************************************)
(* Reading the log of a top-level operation                                *)
(***************************************************************************)
IsAnswered(e) == e.response # Pending

\* the answer is a JSON object with these keys among "error" and "result"
HasEnvelope(e, keys) ==
    /\ e.response.kind = "json"
    /\ e.response.doc.ty = "doc"
    /\ e.response.doc.keys \cap {"error", "result"} = keys

\* the answer is a JSON object with an "error"
ErrorEnvelope(e) == HasEnvelope(e, {"error"}) \/ HasEnvelope(e, {"error", "result"})

\* the answer is the remote error InvalidUserException
InvalidUserAnswer(e) ==
    /\ IsAnswered(e)
    /\ ErrorEnvelope(e)
    /\ e.response.doc.error.name = "InvalidUserException"

\* the answer is a timeout, a transport error or another remote error
OtherErrorAnswer(e) ==
    /\ IsAnswered(e)
    /\ \/ e.response.kind \in {"timeout", "http_error"}
       \/ ErrorEnvelope(e) /\ e.response.doc.error.name # "InvalidUserException"

\* the exception the caller must see for an answer that is propagated unchanged
Propagated(e) ==
    CASE e.response.kind = "timeout" ->
             Raise([type |-> "TimeoutException", server |-> e.server])
      [] e.response.kind = "http_error" -> Raise([type |-> "HTTPError"])
      [] e.response.kind = "json" ->
             Raise([type |-> "MyGeotabException", name |-> e.response.doc.error.name])

\* an Authenticate request answered by a result {path, credentials}
LoginAnswer(e) ==
    /\ e.method = "Authenticate"
    /\ IsAnswered(e)
    /\ HasEnvelope(e, {"result"})
    /\ e.response.doc.result.ty = "login"

\* that result
LoginOf(e) == e.response.doc.result

LoginWithSession(e) == LoginAnswer(e) /\ Truthy(LoginOf(e).credentials.sessionId)

MethodRequests(lg) == {i \in 1..Len(lg) : lg[i].at = "query"}

HandlerAuths(lg) == {i \in 1..Len(lg) : lg[i].at = "reauth"}

AuthRequests(lg) == {i \in 1..Len(lg) : lg[i].method = "Authenticate"}

InCall(t) == frame[t].op = "call"

RaisedAuthenticationException(t, c) ==
    /\ pc[t] = "done"
    /\ outcome[t] = Raise([type |-> "AuthenticationException", username |-> c.username,
                           database |-> c.database, server |-> c.server])

(***************************************************************************)
(* C1: a top-level call dispatches the method request at most twice and    *)
(* its InvalidUserException handler calls authenticate at most once,       *)
(* whatever the counter was when the call began.                           *)
(***************************************************************************)
C1_AtMostOneCycle ==
    \A t \in Threads :
        InCall(t) =>
            /\ Cardinality(MethodRequests(log[t])) <= 2
            /\ Cardinality(HandlerAuths(log[t])) <= 1

C1_Witness ==
    /\ InCall(Main)
    /\ pc[Main] = "done"
    /\ Cardinality(MethodRequests(log[Main])) = 2
    /\ Cardinality(HandlerAuths(log[Main])) = 1
    /\ InvalidUserAnswer(Last(log[Main]))

(***************************************************************************)
(* C2: when the first method request of a call on a client that holds a    *)
(* session id and a password is answered InvalidUserException, exactly one *)
(* authenticate follows and, that authenticate having returned credentials *)
(* with a session id, exactly one retry; a retry answered                  *)
(* InvalidUserException ends the call with AuthenticationException and no  *)
(* further request. (The retry is asked for only after a re-authentication *)
(* that succeeded: the reading most favourable to the code.)               *)
(***************************************************************************)
C2_ExactlyOneReauthAndRetry ==
    \A t \in Threads :
        ( /\ InCall(t)
          /\ pc[t] = "done"
          /\ Len(log[t]) >= 1
          /\ log[t][1].at = "query"
          /\ Truthy(log[t][1].held.session_id)
          /\ Truthy(log[t][1].held.password)
          /\ InvalidUserAnswer(log[t][1]) )
        => /\ Len(log[t]) >= 2
           /\ log[t][2].at = "reauth"
           /\ ( LoginWithSession(log[t][2])
                => /\ Len(log[t]) = 3
                   /\ Cardinality(AuthRequests(log[t])) = 1
                   /\ log[t][3].at = "query"
                   /\ log[t][3].method = log[t][1].method
                   /\ ( InvalidUserAnswer(log[t][3])
                        => outcome[t].kind = "raise"
                           /\ outcome[t].exc.type = "AuthenticationException" ) )

(***************************************************************************)
(* C3: a method request answered InvalidUserException while the client     *)
(* holds no password ends the call at once with AuthenticationException:   *)
(* no Authenticate request and no retry follow it.                         *)
(***************************************************************************)
C3_NoPasswordNoRetry ==
    \A t \in Threads :
        \A i \in 1..Len(log[t]) :
            ( /\ InCall(t)
              /\ log[t][i].at = "query"
              /\ InvalidUserAnswer(log[t][i])
              /\ ~Truthy(log[t][i].held.password) )
            => /\ i = Len(log[t])
               /\ RaisedAuthenticationException(t, log[t][i].held)

C3_Witness ==
    /\ InCall(Main)
    /\ Len(log[Main]) = 1
    /\ log[Main][1].at = "query"
    /\ InvalidUserAnswer(log[Main][1])
    /\ log[Main][1].held.password = None
    /\ start[Main].reauthorize_count = 0
    /\ pc[Main] = "done"

(***************************************************************************)
(* C4: a call invoked on a client without session id sends exactly one     *)
(* Authenticate request before the first request of the called method.     *)
(***************************************************************************)
C4_OneAuthenticateFirst ==
    \A t \in Threads :
        ( /\ InCall(t)
          /\ frame[t].method # None
          /\ ~Truthy(start[t].credentials.session_id) )
        => /\ Len(log[t]) >= 1
           /\ log[t][1].method = "Authenticate"
           /\ \A i \in MethodRequests(log[t]) :
                  /\ i >= 2
                  /\ (\A j \in MethodRequests(log[t]) : i <= j)
                     => Cardinality({k \in AuthRequests(log[t]) : k < i}) = 1

C4_Witness ==
    /\ InCall(Main)
    /\ ~Truthy(start[Main].credentials.session_id)
    /\ Len(log[Main]) = 2
    /\ log[Main][1].method = "Authenticate"
    /\ log[Main][2].at = "query"
    /\ log[Main][2].method = "Get"

(***************************************************************************)
(* C5: whatever the earlier calls on the client did, a call that holds a   *)
(* password when its first method request is answered                      *)
(* InvalidUserException re-authenticates, and retries once the             *)
(* re-authentication has returned credentials with a session id.           *)
(***************************************************************************)
C5_EveryCallGetsItsRetry ==
    \A t \in Threads :
        \A i \in MethodRequests(log[t]) :
            ( /\ InCall(t)
              /\ \A j \in MethodRequests(log[t]) : i <= j
              /\ InvalidUserAnswer(log[t][i])
              /\ Truthy(log[t][i].held.password) )
            => /\ Len(log[t]) > i
               /\ log[t][i + 1].at = "reauth"
               /\ ( LoginWithSession(log[t][i + 1])
                    => Len(log[t]) > i + 1 /\ log[t][i + 2].at = "query" )

(***************************************************************************)
(* C6: when call returns (the method request raised nothing), the          *)
(* reauthorization counter is zero, whatever the result, None included.    *)
(***************************************************************************)
C6_CounterZeroAfterSuccess ==
    \A t \in Threads :
        (InCall(t) /\ pc[t] = "done" /\ outcome[t].kind = "return")
        => reauthorize_count = 0

(***************************************************************************)
(* C7: a call whose every request is answered InvalidUserException sends   *)
(* at most two requests, waits for an answer or has ended, and ends by     *)
(* raising AuthenticationException.                                        *)
(***************************************************************************)
C7_PersistentInvalidUserEnds ==
    \A t \in Threads :
        ( /\ InCall(t)
          /\ frame[t].method # None
          /\ \A i \in 1..Len(log[t]) :
                 IsAnswered(log[t][i]) => InvalidUserAnswer(log[t][i]) )
        => /\ Len(log[t]) <= 2
           /\ \A i \in 1..(Len(log[t]) - 1) : IsAnswered(log[t][i])
           /\ IF IsAnswered(Last(log[t]))
              THEN /\ pc[t] = "done"
                   /\ outcome[t].kind = "raise"
                   /\ outcome[t].exc.type = "AuthenticationException"
              ELSE pc[t] \in {"lazy_auth", "query", "reauth"}

C7_Witness ==
    /\ InCall(Main)
    /\ pc[Main] = "done"
    /\ Len(log[Main]) = 2
    /\ log[Main][1].at = "query"
    /\ log[Main][2].at = "reauth"
    /\ \A i \in 1..2 : InvalidUserAnswer(log[Main][i])

(***************************************************************************)
(* C8: a method request that fails with a remote error other than          *)
(* InvalidUserException, a timeout or a transport error ends the call with *)
(* that error (a timeout as TimeoutException with the server of the        *)
(* request); no request follows it and the credentials are those held      *)
(* when the request was sent.                                              *)
(***************************************************************************)
C8_OtherErrorsPropagate ==
    \A t \in Threads :
        \A i \in MethodRequests(log[t]) :
            (InCall(t) /\ OtherErrorAnswer(log[t][i]))
            => /\ i = Len(log[t])
               /\ pc[t] = "done"
               /\ outcome[t] = Propagated(log[t][i])
               /\ credentials = log[t][i].held

C8_Witness ==
    /\ InCall(Main)
    /\ pc[Main] = "done"
    /\ Len(log[Main]) = 3
    /\ log[Main][3].at = "query"
    /\ log[Main][3].response.kind = "timeout"
    /\ outcome[Main].exc.type = "TimeoutException"

(***************************************************************************)
(* C9: after an authenticate whose request was answered by a result        *)
(* {path, credentials}, the client holds the username, session id and      *)
(* database of the result and the path as server, or, for the path         *)
(* "ThisServer", the server it had; authenticate returns the credentials   *)
(* the client holds.                                                       *)
(***************************************************************************)
\* the credentials of the client right after the i-th request was answered
HeldAfter(t, i) == IF i < Len(log[t]) THEN log[t][i + 1].held ELSE credentials

\* the original statement, for a top-level authenticate: the server kept is
\* the one the client held before the call
C9_KeepsServerHeldBefore ==
    \A t \in Threads :
        ( /\ frame[t].op = "authenticate"
          /\ pc[t] = "done"
          /\ LoginAnswer(log[t][1]) )
        => LET r == LoginOf(log[t][1])
           IN  /\ credentials.username = r.credentials.userName
               /\ credentials.session_id = r.credentials.sessionId
               /\ credentials.database = r.credentials.database
               /\ credentials.server =
                      IF r.path = "ThisServer" THEN start[t].credentials.server
                      ELSE r.path
               /\ outcome[t] = Return(PyCredentials(credentials))

\* amended: the server kept is the one the request was sent to, which is the
\* server held before the call or, when none was held, "my.geotab.com"
C9_AuthenticateReplacesCredentials ==
    \A t \in Threads :
        \A i \in 1..Len(log[t]) :
            LoginAnswer(log[t][i])
            => LET r == LoginOf(log[t][i])
                   before == IF i = 1 THEN start[t].credentials ELSE log[t][i].held
                   after == HeldAfter(t, i)
               IN  /\ after.username = r.credentials.userName
                   /\ after.session_id = r.credentials.sessionId
                   /\ after.database = r.credentials.database
                   /\ after.server =
                          IF r.path # "ThisServer" THEN r.path
                          ELSE IF Truthy(before.server) THEN before.server
                               ELSE "my.geotab.com"
                   /\ (frame[t].op = "authenticate"
                       => outcome[t] = Return(PyCredentials(credentials)))

C9_Witness ==
    /\ frame[Main].op = "authenticate"
    /\ pc[Main] = "done"
    /\ LoginAnswer(log[Main][1])
    /\ LoginOf(log[Main][1]).path = "ThisServer"
    /\ start[Main].credentials.server = "my.geotab.com"
    /\ credentials.session_id = "s1"

(***************************************************************************)
(* C10: an Authenticate request answered InvalidUserException makes        *)
(* authenticate raise AuthenticationException with the username, database  *)
(* and server of the client; any other error of the request is raised      *)
(* unchanged; in a top-level authenticate and inside call alike.           *)
(***************************************************************************)
C10_AuthenticateErrors ==
    \A t \in Threads :
        \A i \in AuthRequests(log[t]) :
            (InvalidUserAnswer(log[t][i]) \/ OtherErrorAnswer(log[t][i]))
            => /\ i = Len(log[t])
               /\ pc[t] = "done"
               /\ IF InvalidUserAnswer(log[t][i])
                  THEN RaisedAuthenticationException(t, log[t][i].held)
                  ELSE outcome[t] = Propagated(log[t][i])

C10_Witness ==
    /\ InCall(Main)
    /\ pc[Main] = "done"
    /\ Len(log[Main]) = 2
    /\ log[Main][2].at = "reauth"
    /\ InvalidUserAnswer(log[Main][2])

(***************************************************************************)
(* C11: every method request sent by call has a `credentials` entry: the   *)
(* caller's own entry, as the caller gave it, when the caller's parameters *)
(* have one, and otherwise the mapping of userName, sessionId and database *)
(* of the credentials the client holds, without the password.              *)
(***************************************************************************)
ValueOf(d, k) == d.items[CHOOSE i \in 1..Len(d.items) : d.items[i].k = k].v

\* the wire form of credentials: three entries, none of them the password
WireCredentials(c) ==
    PyDict(<<Item(K_userName, Val(c.username)), Item(K_sessionId, Val(c.session_id)),
             Item(K_database, Val(c.database))>>)

C11_CredentialsEntry ==
    \A t \in Threads :
        InCall(t) =>
            \A i \in MethodRequests(log[t]) :
                LET sent == log[t][i].params
                    given == frame[t].parameters
                IN  /\ HasKey(sent, K_credentials)
                    /\ ValueOf(sent, K_credentials) =
                           IF HasKey(given, K_credentials)
                           THEN ValueOf(given, K_credentials)
                           ELSE WireCredentials(log[t][i].held)

(***************************************************************************)
(* C12: multi_call makes one call of the method ExecuteMultiCall: every    *)
(* request it sends is that method's or an Authenticate, and every         *)
(* ExecuteMultiCall request has a `calls` list of the length and order of  *)
(* the caller's list, whose i-th element is {method, params} of the i-th   *)
(* tuple, params being the tuple's second element as given, or the empty   *)
(* mapping when there is none; the caller gets the result of the server.   *)
(***************************************************************************)
InMultiCall(t) == frame[t].op = "multi_call"

\* the element of `calls` the claim gives for one tuple of the caller
SubCall(call) ==
    PyDict(<<Item(K_method, PyStr(call[1])),
             Item(K_params, IF Len(call) = 1 THEN PyDict(<<>>) ELSE call[2])>>)

C12_MultiCallBatch ==
    \A t \in Threads :
        InMultiCall(t) =>
            /\ \A i \in 1..Len(log[t]) :
                   log[t][i].method \in {"ExecuteMultiCall", "Authenticate"}
            /\ \A i \in MethodRequests(log[t]) :
                   /\ log[t][i].method = "ExecuteMultiCall"
                   /\ HasKey(log[t][i].params, K_calls)
                   /\ LET sent == ValueOf(log[t][i].params, K_calls)
                      IN  /\ sent.ty = "list"
                          /\ Len(sent.elems) = Len(frame[t].calls)
                          /\ \A j \in 1..Len(sent.elems) :
                                 sent.elems[j] = SubCall(frame[t].calls[j])
            /\ \A i \in MethodRequests(log[t]) :
                   (IsAnswered(log[t][i]) /\ HasEnvelope(log[t][i], {"result"}))
                   => /\ i = Len(log[t])
                      /\ pc[t] = "done"
                      /\ outcome[t] = Return(log[t][i].response.doc.result)

C12_Witness ==
    /\ InMultiCall(Main)
    /\ Len(frame[Main].calls) = 2
    /\ Len(frame[Main].calls[1]) = 2
    /\ Len(frame[Main].calls[2]) = 1
    /\ pc[Main] = "done"
    /\ outcome[Main] = Return(PyList(2))

(***************************************************************************)
(* C13: _process raises MyGeotabException, built from the error, for every *)
(* document with an `error`, with or without a `result`; for a non-empty   *)
(* document without `error` and with `result` it returns the result; for   *)
(* an empty or absent document, or one with neither key, it returns the    *)
(* document unchanged.                                                     *)
(***************************************************************************)
InProcess(t) == frame[t].op = "_process"

IsDocument(data) == data.ty = "doc"

C13_ProcessCases ==
    \A t \in Threads :
        InProcess(t) =>
            LET data == frame[t].data
            IN  IF IsDocument(data) /\ "error" \in data.keys
                THEN outcome[t] = Raise([type |-> "MyGeotabException",
                                         name |-> data.error.name])
                ELSE IF IsDocument(data) /\ "result" \in data.keys
                     THEN outcome[t] = Return(data.result)
                     ELSE outcome[t] = Return(data)

C13_Witness ==
    /\ InProcess(Main)
    /\ IsDocument(frame[Main].data)
    /\ frame[Main].data.keys = {"error", "result"}
    /\ outcome[Main].kind = "raise"

(***************************************************************************)
(* C14: process_parameters returns a mapping with one entry per entry of   *)
(* its input, whose key is the input key with every underscore removed and *)
(* the character after each underscore uppercased, at every nesting level, *)
(* every value that is not a mapping being unchanged.                      *)
(***************************************************************************)
InProcessParameters(t) == frame[t].op = "process_parameters"

RECURSIVE ClaimKeyFrom(_, _)
\* the key without its underscores, the characters that follow one uppercased
ClaimKeyFrom(k, i) ==
    IF i > Len(k) THEN <<>>
    ELSE IF k[i] = "_" THEN ClaimKeyFrom(k, i + 1)
         ELSE <<IF i > 1 /\ k[i - 1] = "_" THEN ToUpper(k[i]) ELSE k[i]>>
              \o ClaimKeyFrom(k, i + 1)

ClaimKey(k) == ClaimKeyFrom(k, 1)

RECURSIVE Converted(_, _)
\* out is the mapping the claim describes for the mapping in
Converted(in, out) ==
    /\ out.ty = "dict"
    /\ Len(out.items) = Len(in.items)
    /\ \A i \in 1..Len(in.items) :
           \E j \in 1..Len(out.items) :
               /\ out.items[j].k = ClaimKey(in.items[i].k)
               /\ IF in.items[i].v.ty = "dict"
                  THEN Converted(in.items[i].v, out.items[j].v)
                  ELSE out.items[j].v = in.items[i].v

\* the claim as it is written: for every mapping
C14_EveryUnderscoreRemoved ==
    \A t \in Threads :
        InProcessParameters(t) =>
            /\ outcome[t].kind = "return"
            /\ Converted(frame[t].parameters, outcome[t].value)

\* every underscore of the key is followed by a letter or a digit
SnakeCase(k) ==
    \A i \in 1..Len(k) :
        k[i] = "_" => /\ i < Len(k)
                      /\ k[i + 1] # "_"
                      /\ IsWordChar(k[i + 1])

RECURSIVE Regular(_)
\* at every level the keys are snake_case and no two convert to the same key
Regular(d) ==
    /\ \A i \in 1..Len(d.items) :
           /\ SnakeCase(d.items[i].k)
           /\ d.items[i].v.ty = "dict" => Regular(d.items[i].v)
    /\ \A i, j \in 1..Len(d.items) :
           ClaimKey(d.items[i].k) = ClaimKey(d.items[j].k) => i = j

(***************************************************************************)
(* C14, amended: the same, for every mapping in which, at every nesting    *)
(* level, each underscore of a key is followed by a letter or a digit and  *)
(* no two keys of one mapping convert to the same key.                     *)
(***************************************************************************)
C14_SnakeCaseConverted ==
    \A t \in Threads :
        (InProcessParameters(t) /\ Regular(frame[t].parameters)) =>
            /\ outcome[t].kind = "return"
            /\ Converted(frame[t].parameters, outcome[t].value)

C14_Witness ==
    /\ InProcessParameters(Main)
    /\ Regular(frame[Main].parameters)
    /\ Len(frame[Main].parameters.items) = 2
    /\ \E i \in 1..2 :
           /\ frame[Main].parameters.items[i].k = K_type_name
           /\ frame[Main].parameters.items[i].v.ty = "dict"
           /\ HasKey(frame[Main].parameters.items[i].v, K_type_name)
    /\ HasKey(outcome[Main].value, K_typeName)

(***************************************************************************)
(* C15: for every server identifier (host, host:port, host with a path, a  *)
(* full URL) get_api_url returns "https://" + host[:port] + "/apiv1", the  *)
(* scheme and the path of the identifier stripped, and resolving that      *)
(* result again returns it unchanged.                                      *)
(***************************************************************************)
InGetApiUrl(t) == frame[t].op = "get_api_url"

C15_EndpointIdempotent ==
    \A t \in Threads :
        InGetApiUrl(t) =>
            LET url == outcome[t].value.s
            IN  /\ url = <<"h", "t", "t", "p", "s", ":", "/", "/">>
                         \o frame[t].parts.host \o frame[t].parts.port
                         \o <<"/", "a", "p", "i", "v", "1">>
                /\ get_api_url(url, frame[t].legacy) = url

(***************************************************************************)
(* C16: the retry that call sends after a re-authentication has the method *)
(* and the caller's parameters of the first attempt; when the caller gave  *)
(* no `credentials`, the retry carries the session id that the Authenticate*)
(* exchange before it obtained, and not the one that was rejected.         *)
(***************************************************************************)
FirstMethodRequest(lg) ==
    CHOOSE i \in MethodRequests(lg) : \A j \in MethodRequests(lg) : i <= j

\* the parameters of a request other than `credentials`
OtherParams(e) == SelectSeq(e.params.items, LAMBDA it : it.k # K_credentials)

\* the session id a request carries
SessionSent(e) == ValueOf(ValueOf(e.params, K_credentials), K_sessionId)

C16_RetryIsSameCall ==
    \A t \in Threads :
        InCall(t) =>
            \A j \in MethodRequests(log[t]) :
                j > FirstMethodRequest(log[t]) =>
                    LET first == log[t][FirstMethodRequest(log[t])]
                        retry == log[t][j]
                    IN  /\ retry.method = first.method
                        /\ OtherParams(retry) = OtherParams(first)
                        /\ IF HasKey(frame[t].parameters, K_credentials)
                           THEN retry.params = first.params
                           ELSE /\ LoginWithSession(log[t][j - 1])
                                /\ HasKey(retry.params, K_credentials)
                                /\ SessionSent(retry) =
                                       PyStr(LoginOf(log[t][j - 1]).credentials.sessionId)
                                /\ HasKey(first.params, K_credentials)
                                   => SessionSent(retry) # SessionSent(first)

(***************************************************************************)
(* C17: when the calls of two threads on one client interleave, each call  *)
(* makes at most one re-authentication and one retry, and each call whose  *)
(* first method request is answered InvalidUserException while the client  *)
(* holds a password (no authenticate of either thread has replaced the     *)
(* credentials) re-authenticates, whatever the other call did.             *)
(***************************************************************************)
NoLoginYet == \A t \in Threads : \A i \in 1..Len(log[t]) : ~LoginAnswer(log[t][i])

C17_RetryBudgetPerCall ==
    \A t \in Threads :
        (InCall(t) /\ MethodRequests(log[t]) # {}) =>
            LET f == FirstMethodRequest(log[t])
            IN  /\ Cardinality(HandlerAuths(log[t])) <= 1
                /\ Cardinality(MethodRequests(log[t])) <= 2
                /\ (/\ InvalidUserAnswer(log[t][f])
                    /\ Truthy(log[t][f].held.password)
                    /\ NoLoginYet)
                   => /\ Len(log[t]) > f
                      /\ log[t][f + 1].at = "reauth"

(***************************************************************************)
(* C18: right after an Authenticate request is answered by a login the     *)
(* client holds no password, and a client without password never gets one  *)
(* back; so a method request answered InvalidUserException after a login,  *)
(* in the same call (the retry after a re-authentication included) or in a *)
(* later one, ends the call with AuthenticationException and without       *)
(* re-authentication.                                                      *)
(***************************************************************************)
LoginBefore(t, j) == \E i \in 1..(j - 1) : LoginAnswer(log[t][i])

C18_NoPasswordAfterLogin ==
    \A t \in Threads :
        /\ \A i \in 1..Len(log[t]) :
               /\ LoginAnswer(log[t][i]) => HeldAfter(t, i).password = None
               /\ log[t][i].held.password = None => HeldAfter(t, i).password = None
        /\ (Len(log[t]) >= 1 /\ start[t].credentials.password = None)
           => log[t][1].held.password = None
        /\ InCall(t) =>
               \A j \in MethodRequests(log[t]) :
                   ( /\ InvalidUserAnswer(log[t][j])
                     /\ start[t].credentials.password = None \/ LoginBefore(t, j) )
                   => /\ j = Len(log[t])
                      /\ RaisedAuthenticationException(t, log[t][j].held)

C18_Witness ==
    /\ InCall(Main)
    /\ pc[Main] = "done"
    /\ Len(log[Main]) = 3
    /\ log[Main][2].at = "reauth"
    /\ LoginWithSession(log[Main][2])
    /\ InvalidUserAnswer(log[Main][3])
    /\ outcome[Main].kind = "raise"
    /\ start[Main].credentials.password = "pw"

(***************************************************************************)
(* C19: every method request sent by call carries a `credentials` entry    *)
(* with a session id in it, the caller's or the injected one, whatever the *)
(* Authenticate request before it was answered.                            *)
(***************************************************************************)
CarriesSession(e) ==
    /\ HasKey(e.params, K_credentials)
    /\ ValueOf(e.params, K_credentials).ty = "dict"
    /\ HasKey(ValueOf(e.params, K_credentials), K_sessionId)
    /\ PyTruthy(SessionSent(e))

C19_SessionOnEveryRequest ==
    \A t \in Threads :
        InCall(t) => \A i \in MethodRequests(log[t]) : CarriesSession(log[t][i])

(***************************************************************************)
(* C20: the username, session id, database and password of the client      *)
(* change only when an Authenticate request is answered by a login, and    *)
(* then all four at once, to the three values of the login and no          *)
(* password: after an Authenticate request that failed (any error) or was  *)
(* answered by an empty result, and after every other request, they are    *)
(* what they were when the request was sent.                               *)
(***************************************************************************)
FourFields(c) ==
    [username |-> c.username, session_id |-> c.session_id,
     database |-> c.database, password |-> c.password]

C20_CredentialsChangeAtOnce ==
    \A t \in Threads :
        /\ Len(log[t]) >= 1
           => FourFields(log[t][1].held) = FourFields(start[t].credentials)
        /\ \A i \in 1..Len(log[t]) :
               FourFields(HeldAfter(t, i)) =
                   IF LoginAnswer(log[t][i])
                   THEN [username |-> LoginOf(log[t][i]).credentials.userName,
                         session_id |-> LoginOf(log[t][i]).credentials.sessionId,
                         database |-> LoginOf(log[t][i]).credentials.database,
                         password |-> None]
                   ELSE FourFields(log[t][i].held)

C20_Witness ==
    /\ InCall(Main)
    /\ Len(log[Main]) >= 2
    /\ log[Main][2].at = "reauth"
    /\ IsAnswered(log[Main][2])
    /\ HasEnvelope(log[Main][2], {"result"})
    /\ log[Main][2].response.doc.result = PyNone
    /\ credentials.session_id = "s0"
    /\ credentials.password = "pw"

(***************************************************************************)
(* C21: every Get request of get carries typeName; when the caller gave no *)
(* parameters it carries nothing else of the caller; otherwise it carries  *)
(* a `search` mapping that holds the entries of the caller's nested        *)
(* `search` and the caller's other criteria, all at the top level, with no *)
(* `search` and no `resultsLimit` entry inside it, and beside it a         *)
(* `resultsLimit` entry with the caller's limit (None when there is none). *)
(***************************************************************************)
InGet(t) == frame[t].op = "get"

\* every item of `items` is an entry of the dict d
HoldsAll(d, items) ==
    \A i \in 1..Len(items) : HasKey(d, items[i].k) /\ ValueOf(d, items[i].k) = items[i].v

\* the caller's criteria: its parameters other than `search` and `resultsLimit`
OwnCriteria(given) ==
    SelectSeq(given.items, LAMBDA it : it.k \notin {K_search, K_resultsLimit})

\* the entries of the caller's nested `search`
NestedCriteria(given) ==
    IF HasKey(given, K_search) THEN ValueOf(given, K_search).items ELSE <<>>

C21_SearchFlattened ==
    \A t \in Threads :
        InGet(t) =>
            \A i \in MethodRequests(log[t]) :
                LET sent == log[t][i].params
                    given == frame[t].given
                IN  /\ log[t][i].method = "Get"
                    /\ HasKey(sent, K_typeName)
                    /\ ValueOf(sent, K_typeName) = PyStr(frame[t].type_name)
                    /\ IF given.items = <<>>
                       THEN \A j \in 1..Len(sent.items) :
                                sent.items[j].k \in {K_typeName, K_credentials}
                       ELSE /\ HasKey(sent, K_search)
                            /\ ValueOf(sent, K_search).ty = "dict"
                            /\ HoldsAll(ValueOf(sent, K_search), NestedCriteria(given))
                            /\ HoldsAll(ValueOf(sent, K_search), OwnCriteria(given))
                            /\ ~HasKey(ValueOf(sent, K_search), K_search)
                            /\ ~HasKey(ValueOf(sent, K_search), K_resultsLimit)
                            /\ HasKey(sent, K_resultsLimit)
                            /\ ValueOf(sent, K_resultsLimit) =
                                   IF HasKey(given, K_resultsLimit)
                                   THEN ValueOf(given, K_resultsLimit)
                                   ELSE PyNone

\* the servers whose host is a loopback address
LoopbackServers == {"localhost", "127.0.0.1"}

\* C22: every request of call and of authenticate is sent with TLS
\* verification enabled unless the host of the server is 127.0.0.1 or
\* localhost, and with verification disabled to these two; a host whose name
\* only holds "localhost" or "127.0.0.1" is verified like every other host.
C22_VerifyUnlessLoopback ==
    \A t \in Threads :
        \A i \in 1..Len(log[t]) :
            \A legacy \in BOOLEAN :
                log[t][i].verify_ssl[legacy] = (log[t][i].server \notin LoopbackServers)

====
